---------------------------- MODULE Spec2Model ----------------------------
(***************************************************************************)
(* State-machine model of the resume analyzer's App component and of its   *)
(* analysis client (analyzeResumeWithGemini).                              *)
(*                                                                         *)
(* JavaScript values are tagged records, so that null, undefined, the      *)
(* empty string and objects stay distinct and truthiness is computed the   *)
(* way JavaScript computes it.                                             *)
(***************************************************************************)
EXTENDS Integers, Sequences, FiniteSets, TLC

\* ------------------------------------------------------------------ bounds

\* Number of file selections (analysis attempts) one behaviour may start.
MaxAttempts == 3

\* ------------------------------------------------------- JavaScript values

Null == [t |-> "null"]
Undefined == [t |-> "undefined"]
Str(s) == [t |-> "string", v |-> s]
Obj(r) == [t |-> "object", fields |-> r]
\* A thrown Error instance (name distinguishes SyntaxError from Error).
Err(n, m) == [t |-> "Error", name |-> n, message |-> m]

\* JavaScript truthiness, for the values the program tests with `!x`, `x ||`
\* and `x &&`: undefined, null and "" are falsy, objects are truthy.
Falsy(v) == v = Undefined \/ v = Null \/ v = Str("")

\* The `instanceof Error` test of the error updater.
InstanceOfError(v) == v.t = "Error"

\* ------------------------------------------------------------- result data

\* ANALYSIS_SCHEMA.required
Required ==
    { "atsScore", "parsabilityScore", "keywordMatchScore", "candidateName",
      "candidateTitle", "contactInfo", "professionalSummary", "workExperience",
      "extractedSkills", "missingKeywords", "strengths", "weaknesses",
      "formattingIssues", "improvementPlan", "skillBreakdown" }

\* Whether a parsed value carries every field of the required-field list.
\* The program never evaluates this; it is the contract of the schema.
SatisfiesSchema(v) == v.t = "object" /\ Required \subseteq DOMAIN v.fields

\* The response texts the external service is taken to produce, as JSON text.
TextAda ==
    "{\"atsScore\":72,\"parsabilityScore\":80,\"keywordMatchScore\":65,\"candidateName\":\"Ada\",\"candidateTitle\":\"Engineer\",\"contactInfo\":{\"email\":\"\",\"phone\":\"\",\"location\":\"\"},\"professionalSummary\":\"\",\"workExperience\":[],\"extractedSkills\":[],\"missingKeywords\":[\"Kubernetes\",\"Terraform\"],\"strengths\":[],\"weaknesses\":[],\"formattingIssues\":[],\"improvementPlan\":[{\"priority\":\"High\",\"category\":\"Keywords\",\"action\":\"Add cloud tooling\",\"explanation\":\"\",\"expectedBenefit\":\"\"}],\"skillBreakdown\":[]}"
TextBob ==
    "{\"atsScore\":40,\"parsabilityScore\":55,\"keywordMatchScore\":30,\"candidateName\":\"Bob\",\"candidateTitle\":\"Analyst\",\"contactInfo\":{\"email\":\"\",\"phone\":\"\",\"location\":\"\"},\"professionalSummary\":\"\",\"workExperience\":[],\"extractedSkills\":[],\"missingKeywords\":[],\"strengths\":[],\"weaknesses\":[],\"formattingIssues\":[],\"improvementPlan\":[],\"skillBreakdown\":[]}"
TextPartial == "{\"atsScore\":72}"
TextOffEnum ==
    "{\"atsScore\":40,\"parsabilityScore\":55,\"keywordMatchScore\":30,\"candidateName\":\"Bob\",\"candidateTitle\":\"Analyst\",\"contactInfo\":{\"email\":\"\",\"phone\":\"\",\"location\":\"\"},\"professionalSummary\":\"\",\"workExperience\":[],\"extractedSkills\":[],\"missingKeywords\":[],\"strengths\":[],\"weaknesses\":[],\"formattingIssues\":[],\"improvementPlan\":[{\"priority\":\"Urgent\",\"category\":\"Other\",\"action\":\"Use bullets\",\"explanation\":\"\",\"expectedBenefit\":\"\"}],\"skillBreakdown\":[]}"
TextNull == "null"
TextNotJson == "I cannot analyze this document."

DataAda ==
    [ atsScore |-> 72, parsabilityScore |-> 80, keywordMatchScore |-> 65,
      candidateName |-> "Ada", candidateTitle |-> "Engineer",
      contactInfo |-> [email |-> "", phone |-> "", location |-> ""],
      professionalSummary |-> "", workExperience |-> <<>>,
      extractedSkills |-> <<>>,
      missingKeywords |-> <<"Kubernetes", "Terraform">>,
      strengths |-> <<>>, weaknesses |-> <<>>, formattingIssues |-> <<>>,
      improvementPlan |->
          << [ priority |-> "High", category |-> "Keywords",
               action |-> "Add cloud tooling", explanation |-> "",
               expectedBenefit |-> "" ] >>,
      skillBreakdown |-> <<>> ]
DataBob ==
    [ atsScore |-> 40, parsabilityScore |-> 55, keywordMatchScore |-> 30,
      candidateName |-> "Bob", candidateTitle |-> "Analyst",
      contactInfo |-> [email |-> "", phone |-> "", location |-> ""],
      professionalSummary |-> "", workExperience |-> <<>>,
      extractedSkills |-> <<>>, missingKeywords |-> <<>>,
      strengths |-> <<>>, weaknesses |-> <<>>, formattingIssues |-> <<>>,
      improvementPlan |-> <<>>, skillBreakdown |-> <<>> ]
DataPartial == [ atsScore |-> 72 ]
DataOffEnum ==
    [ DataBob EXCEPT !.improvementPlan =
          << [ priority |-> "Urgent", category |-> "Other",
               action |-> "Use bullets", explanation |-> "",
               expectedBenefit |-> "" ] >> ]

\* JSON.parse on the texts above: the value a JSON text denotes, or a thrown
\* SyntaxError for text that is not JSON.  It checks nothing else.
JSONParse(text) ==
    CASE text = TextAda     -> [kind |-> "return", value |-> Obj(DataAda)]
      [] text = TextBob     -> [kind |-> "return", value |-> Obj(DataBob)]
      [] text = TextPartial -> [kind |-> "return", value |-> Obj(DataPartial)]
      [] text = TextOffEnum -> [kind |-> "return", value |-> Obj(DataOffEnum)]
      [] text = TextNull    -> [kind |-> "return", value |-> Null]
      [] OTHER ->
            [kind |-> "throw",
             error |-> Err("SyntaxError", "Unexpected token in JSON")]

\* ---------------------------------------------------------- analysis client

MissingKeyMsg ==
    "API Key is missing. Please check your environment configuration."
NoResponseMsg == "No response extracted from Gemini."

\* AnalyzeStart with the credential tested against undefined only, so that a
\* variable set to nothing counts as a credential.
AnalyzeStartUndefinedOnly(e) ==
    LET apiKey == e["VITE_API_KEY"]
    IN  IF apiKey = Undefined
        THEN [kind |-> "throw", error |-> Err("Error", MissingKeyMsg)]
        ELSE [kind |-> "await"]

\* analyzeResumeWithGemini up to its await: reads the credential from the
\* environment and throws before issuing the request when it is falsy.
AnalyzeStart(e) ==
    LET apiKey == e["VITE_API_KEY"]
    IN  IF Falsy(apiKey)
        THEN [kind |-> "throw", error |-> Err("Error", MissingKeyMsg)]
        ELSE [kind |-> "await"]

\* AnalyzeFinish with the text tested against undefined only, so that an
\* empty text reaches JSON.parse.
AnalyzeFinishUndefinedOnly(reply) ==
    IF reply.kind = "rejected"
    THEN [kind |-> "throw", error |-> reply.error, parsed |-> FALSE]
    ELSE IF reply.text = Undefined
    THEN [kind |-> "throw", error |-> Err("Error", NoResponseMsg),
          parsed |-> FALSE]
    ELSE LET p == JSONParse(reply.text.v)
         IN  IF p.kind = "throw"
             THEN [kind |-> "throw", error |-> p.error, parsed |-> TRUE]
             ELSE [kind |-> "return", data |-> p.value, parsed |-> TRUE]

\* AnalyzeFinish with the caught error wrapped in a new Error before it is
\* rethrown.
AnalyzeFinishWrapped(reply) ==
    IF reply.kind = "rejected"
    THEN [kind |-> "throw", error |-> Err("Error", "Gemini request failed"),
          parsed |-> FALSE]
    ELSE IF Falsy(reply.text)
    THEN [kind |-> "throw", error |-> Err("Error", NoResponseMsg),
          parsed |-> FALSE]
    ELSE LET p == JSONParse(reply.text.v)
         IN  IF p.kind = "throw"
             THEN [kind |-> "throw", error |-> p.error, parsed |-> TRUE]
             ELSE [kind |-> "return", data |-> p.value, parsed |-> TRUE]

\* analyzeResumeWithGemini from the settlement of generateContent on: a
\* rejection is caught, logged and rethrown; a falsy text throws; otherwise
\* the text is parsed and the parsed value is returned uninspected.
\* `parsed` records whether JSON.parse ran.
AnalyzeFinish(reply) ==
    IF reply.kind = "rejected"
    THEN [kind |-> "throw", error |-> reply.error, parsed |-> FALSE]
    ELSE IF Falsy(reply.text)
    THEN [kind |-> "throw", error |-> Err("Error", NoResponseMsg),
          parsed |-> FALSE]
    ELSE LET p == JSONParse(reply.text.v)
         IN  IF p.kind = "throw"
             THEN [kind |-> "throw", error |-> p.error, parsed |-> TRUE]
             ELSE [kind |-> "return", data |-> p.value, parsed |-> TRUE]


\* ------------------------------------------------------------ environment

\* What the build environment may hold: the variable the client reads and the
\* variable the README tells the user to set, each unset or set ("" is a
\* variable set to nothing).
EnvValues ==
    [ VITE_API_KEY : {Undefined, Str(""), Str("secret")},
      VITE_GEMINI_API_KEY : {Undefined, Str("secret")} ]

\* MIME types of the files a user may choose or drop.
FileTypes == {"application/pdf", "image/png"}

\* The size limit the upload area announces ("PDF files only (Max 5MB)").
MaxSizeMB == 5

\* Sizes, in MB, of the files a user may choose or drop: under and over it.
FileSizesMB == {1, 6}

\* The files a user may choose or drop.
Files == [type : FileTypes, sizeMB : FileSizesMB]

\* How generateContent may settle: a rejection with a thrown value (an Error
\* with a message, an Error with an empty message, a value that is no Error),
\* or a response whose text is absent, empty, or one of the texts above.
Replies ==
    { [kind |-> "rejected", error |-> x] :
        x \in { Err("Error", "Failed to fetch"), Err("Error", ""),
                Str("aborted") } }
    \cup
    { [kind |-> "resolved", text |-> x] :
        x \in { Undefined, Str(""), Str(TextNotJson), Str(TextNull),
                Str(TextPartial), Str(TextOffEnum), Str(TextAda),
                Str(TextBob) } }

\* ------------------------------------------------------------------ state

VARIABLES
    status,     \* App: useState<AnalysisStatus>('idle')
    result,     \* App: useState<AnalysisResult | null>(null)
    errorMsg,   \* App: useState<string | null>(null)
    env,        \* import.meta.env, fixed by the build
    calls,      \* per attempt: where its FileReader / request stands, and
                \* (history) whether a cancel or reset happened since it began
    requests,   \* (history) per attempt: generateContent calls issued so far
    lastEvent,  \* (history) the event the last step handled
    activeTab,  \* AnalysisDashboard: useState('All')
    isExporting,\* AnalysisDashboard: useState(false)
    exports,    \* handleExportPDF calls awaiting html2canvas: `own` by the
                \* mounted dashboard, `orphaned` by dashboards since unmounted
    progress    \* LoadingScreen: useState(0), in 1/Resolution of a percent

vars ==
    <<status, result, errorMsg, env, calls, requests, lastEvent, activeTab,
      isExporting, exports, progress>>

Attempts == 1 .. MaxAttempts

Statuses == {"idle", "analyzing", "success", "error"}

\* The three pieces of App state as one value, for the updaters below.
app == [status |-> status, result |-> result, errorMsg |-> errorMsg]

SetApp(a) ==
    /\ status' = a.status
    /\ result' = a.result
    /\ errorMsg' = a.errorMsg

FallbackMsg == "Failed to analyze resume. Please try again."
ReadFailedMsg == "Failed to read file."

\* SuccessUpdater without the look at the previous status.
SuccessUpdaterUnguarded(a, data) ==
    [a EXCEPT !.result = data, !.status = "success"]

\* SuccessUpdater that moves to success without storing the data.
SuccessUpdaterStatusOnly(a, data) ==
    IF a.status = "analyzing"
    THEN [a EXCEPT !.status = "success"]
    ELSE a

\* The functional update after analyzeResumeWithGemini resolved with `data`:
\* applied only when the status it finds is still 'analyzing'.
SuccessUpdater(a, data) ==
    IF a.status = "analyzing"
    THEN [a EXCEPT !.result = data, !.status = "success"]
    ELSE a

\* ErrorUpdater without the `||` fallback for an empty message.
ErrorUpdaterNoFallback(a, err) ==
    IF a.status = "analyzing"
    THEN [a EXCEPT
            !.errorMsg = IF InstanceOfError(err) THEN Str(err.message)
                         ELSE Str(FallbackMsg),
            !.status = "error"]
    ELSE a

\* ErrorUpdater without the look at the previous status.
ErrorUpdaterUnguarded(a, err) ==
    LET errorMessage ==
            IF InstanceOfError(err) THEN Str(err.message)
            ELSE Str(FallbackMsg)
    IN  [a EXCEPT
           !.errorMsg = IF Falsy(errorMessage) THEN Str(FallbackMsg)
                        ELSE errorMessage,
           !.status = "error"]

\* ErrorUpdater that shows a thrown value that is no Error as it is.
ErrorUpdaterMessageOfAny(a, err) ==
    IF a.status = "analyzing"
    THEN LET errorMessage ==
                 IF InstanceOfError(err) THEN Str(err.message) ELSE err
         IN  [a EXCEPT
                !.errorMsg = IF Falsy(errorMessage) THEN Str(FallbackMsg)
                             ELSE errorMessage,
                !.status = "error"]
    ELSE a

\* ErrorUpdater that sets the message and leaves the status as it is.
ErrorUpdaterMessageOnly(a, err) ==
    IF a.status = "analyzing"
    THEN [a EXCEPT !.errorMsg =
                IF InstanceOfError(err) /\ ~Falsy(Str(err.message))
                THEN Str(err.message)
                ELSE Str(FallbackMsg)]
    ELSE a

\* The functional update in the catch block, for the thrown value `err`.
ErrorUpdater(a, err) ==
    IF a.status = "analyzing"
    THEN LET errorMessage ==
                 IF InstanceOfError(err) THEN Str(err.message)
                 ELSE Str(FallbackMsg)
         IN  [a EXCEPT
                !.errorMsg = IF Falsy(errorMessage) THEN Str(FallbackMsg)
                             ELSE errorMessage,
                !.status = "error"]
    ELSE a

\* Cleared without the setResult(null).
ClearedKeepsResult == [status |-> "idle", result |-> result, errorMsg |-> Null]

\* cancelAnalysis and resetAnalysis both write the same three values.
Cleared == [status |-> "idle", result |-> Null, errorMsg |-> Null]

InFlight(c) == calls[c].phase \in {"reading", "requesting"}

\* (history) every attempt still in flight has now seen a cancel or reset.
MarkStale ==
    [c \in Attempts |->
        IF InFlight(c) THEN [calls[c] EXCEPT !.stale = TRUE] ELSE calls[c]]

Finished == [phase |-> "done", stale |-> FALSE]

\* ------------------------------------------------------------------ render

\* App render: which panel the current state shows.
UploadShown == status = "idle"
LoadingShown == status = "analyzing"
ErrorPanelShown == status = "error"
DashboardShown == status = "success" /\ ~Falsy(result)

\* No handleExportPDF call is awaiting html2canvas.
NoExports == [own |-> 0, orphaned |-> 0]

\* What a change of App's state does to the state of its children.  A child
\* rendered before and after keeps its state; one that is newly rendered
\* starts from its useState initial values; the state of one that is no
\* longer rendered is discarded (held here at the initial values), its
\* interval timer is cleared, and the exports it started run on without it.
ComponentsFollow ==
    /\ progress' = IF LoadingShown' /\ LoadingShown THEN progress ELSE 0
    /\ isExporting' =
            IF DashboardShown' /\ DashboardShown THEN isExporting ELSE FALSE
    /\ exports' =
            IF DashboardShown' \/ ~DashboardShown THEN exports
            ELSE [own |-> 0, orphaned |-> exports.orphaned + exports.own]

\* ---------------------------------------------------------- initial state

Init ==
    /\ status = "idle"
    /\ result = Null
    /\ errorMsg = Null
    /\ env \in EnvValues
    /\ calls = [c \in Attempts |-> [phase |-> "none", stale |-> FALSE]]
    /\ requests = [c \in Attempts |-> 0]
    /\ lastEvent = [kind |-> "init"]
    /\ activeTab = "All"
    /\ isExporting = FALSE
    /\ exports = NoExports
    /\ progress = 0

\* ---------------------------------------------------------------- actions

\* App.handleFileSelect up to readAsDataURL, for the attempt numbered c: the
\* two state writes, then a FileReader is started.  result is not written.
\* (readAsDataURL of a File on a fresh reader does not throw, so the outer
\* catch of handleFileSelect has no way to run.)
HandleFileSelect(c) ==
    /\ status' = "analyzing"
    /\ errorMsg' = Null
    /\ calls' = [calls EXCEPT ![c].phase = "reading"]
    /\ UNCHANGED result

\* SelectFile with the upload area rendered in every status.
SelectFileAlwaysOffered(file) ==
    /\ \E c \in Attempts :
        /\ calls[c].phase = "none"
        /\ \A d \in Attempts : d < c => calls[d].phase # "none"
        /\ IF file.type = "application/pdf"
           THEN /\ HandleFileSelect(c)
                /\ lastEvent' = [kind |-> "select", call |-> c, file |-> file]
           ELSE /\ lastEvent' = [kind |-> "rejectUpload", file |-> file]
                /\ UNCHANGED <<status, result, errorMsg, calls>>
    /\ UNCHANGED <<env, requests, activeTab>>
    /\ ComponentsFollow

\* SelectFile without the test of file.type.
SelectFileAnyType(file) ==
    /\ UploadShown
    /\ \E c \in Attempts :
        /\ calls[c].phase = "none"
        /\ \A d \in Attempts : d < c => calls[d].phase # "none"
        /\ HandleFileSelect(c)
        /\ lastEvent' = [kind |-> "select", call |-> c, file |-> file]
    /\ UNCHANGED <<env, requests, activeTab>>
    /\ ComponentsFollow

\* FileUpload.handleInputChange / handleDrop on the chosen or dropped file;
\* the upload area is rendered only while status is idle.  The handlers look
\* at file.type and at nothing else of the file.
SelectFile(file) ==
    /\ UploadShown
    /\ \E c \in Attempts :
        /\ calls[c].phase = "none"
        /\ \A d \in Attempts : d < c => calls[d].phase # "none"
        /\ IF file.type = "application/pdf"
           THEN /\ HandleFileSelect(c)
                /\ lastEvent' = [kind |-> "select", call |-> c, file |-> file]
           ELSE /\ lastEvent' = [kind |-> "rejectUpload", file |-> file]
                /\ UNCHANGED <<status, result, errorMsg, calls>>
    /\ UNCHANGED <<env, requests, activeTab>>
    /\ ComponentsFollow

\* reader.onload: analyzeResumeWithGemini is called; it either throws at once
\* (the catch block's updater runs before any other event) or the request is
\* now outstanding.
ReaderOnLoad(c) ==
    /\ calls[c].phase = "reading"
    /\ LET start == AnalyzeStart(env)
       IN  /\ lastEvent' = [kind |-> "onload", call |-> c,
                            stale |-> calls[c].stale, outcome |-> start]
           /\ IF start.kind = "throw"
              THEN /\ SetApp(ErrorUpdater(app, start.error))
                   /\ calls' = [calls EXCEPT ![c] = Finished]
                   /\ UNCHANGED requests
              ELSE /\ calls' = [calls EXCEPT ![c].phase = "requesting"]
                   /\ requests' = [requests EXCEPT ![c] = @ + 1]
                   /\ UNCHANGED <<status, result, errorMsg>>
    /\ UNCHANGED <<env, activeTab>>
    /\ ComponentsFollow

\* reader.onerror: written without looking at the current status.
ReaderOnError(c) ==
    /\ calls[c].phase = "reading"
    /\ status' = "error"
    /\ errorMsg' = Str(ReadFailedMsg)
    /\ calls' = [calls EXCEPT ![c] = Finished]
    /\ lastEvent' = [kind |-> "onerror", call |-> c, stale |-> calls[c].stale]
    /\ UNCHANGED <<result, env, requests, activeTab>>
    /\ ComponentsFollow

\* RequestSettles with one retry of a failed request.
RequestSettlesRetry(c, reply) ==
    /\ calls[c].phase = "requesting"
    /\ LET fin == AnalyzeFinish(reply)
       IN  /\ lastEvent' = [kind |-> "settle", call |-> c,
                            stale |-> calls[c].stale, reply |-> reply,
                            outcome |-> fin]
           /\ IF fin.kind = "throw" /\ requests[c] < 2
              THEN /\ requests' = [requests EXCEPT ![c] = @ + 1]
                   /\ UNCHANGED <<status, result, errorMsg, calls>>
              ELSE /\ IF fin.kind = "return"
                      THEN SetApp(SuccessUpdater(app, fin.data))
                      ELSE SetApp(ErrorUpdater(app, fin.error))
                   /\ calls' = [calls EXCEPT ![c] = Finished]
                   /\ UNCHANGED requests
    /\ UNCHANGED <<env, activeTab>>
    /\ ComponentsFollow

\* generateContent settles: the rest of analyzeResumeWithGemini runs, then the
\* continuation in reader.onload applies the matching updater.
RequestSettles(c, reply) ==
    /\ calls[c].phase = "requesting"
    /\ LET fin == AnalyzeFinish(reply)
       IN  /\ lastEvent' = [kind |-> "settle", call |-> c,
                            stale |-> calls[c].stale, reply |-> reply,
                            outcome |-> fin]
           /\ IF fin.kind = "return"
              THEN SetApp(SuccessUpdater(app, fin.data))
              ELSE SetApp(ErrorUpdater(app, fin.error))
    /\ calls' = [calls EXCEPT ![c] = Finished]
    /\ UNCHANGED <<env, requests, activeTab>>
    /\ ComponentsFollow

\* The loading screen's cancel button, shown while status is analyzing.
CancelAnalysis ==
    /\ LoadingShown
    /\ SetApp(Cleared)
    /\ calls' = MarkStale
    /\ lastEvent' = [kind |-> "cancel", from |-> status]
    /\ UNCHANGED <<env, requests, activeTab>>
    /\ ComponentsFollow

\* "Try Again" on the error panel, or the dashboard's reset button, which is
\* rendered only when status is success and result is truthy.
ResetAnalysis ==
    /\ ErrorPanelShown \/ DashboardShown
    /\ SetApp(Cleared)
    /\ calls' = MarkStale
    /\ lastEvent' = [kind |-> "reset", from |-> status]
    /\ UNCHANGED <<env, requests, activeTab>>
    /\ ComponentsFollow

Next ==
    \/ \E file \in Files : SelectFile(file)
    \/ \E c \in Attempts : ReaderOnLoad(c)
    \/ \E c \in Attempts : ReaderOnError(c)
    \/ \E c \in Attempts, reply \in Replies : RequestSettles(c, reply)
    \/ CancelAnalysis
    \/ ResetAnalysis

Spec == Init /\ [][Next]_vars


\* --------------------------------------------------------------- dashboard

\* Bounds on the lists of the results the dashboard is given.
MaxKeywords == 2
MaxIssues == 2
MaxPlan == 2

\* Sequences over S of length at most n.
SeqsUpTo(S, n) == UNION { [1 .. k -> S] : k \in 0 .. n }

\* Texts the program inspects are sequences of characters.
Uppers ==
    <<"A", "B", "C", "D", "E", "F", "G", "H", "I", "J", "K", "L", "M",
      "N", "O", "P", "Q", "R", "S", "T", "U", "V", "W", "X", "Y", "Z">>
Lowers ==
    <<"a", "b", "c", "d", "e", "f", "g", "h", "i", "j", "k", "l", "m",
      "n", "o", "p", "q", "r", "s", "t", "u", "v", "w", "x", "y", "z">>

LowerChar(ch) ==
    IF \E i \in DOMAIN Uppers : Uppers[i] = ch
    THEN Lowers[CHOOSE i \in DOMAIN Uppers : Uppers[i] = ch]
    ELSE ch

\* String.prototype.toLowerCase
ToLowerCase(str) == [i \in 1 .. Len(str) |-> LowerChar(str[i])]

\* String.prototype.includes
Includes(str, sub) ==
    \E i \in 0 .. (Len(str) - Len(sub)) : SubSeq(str, i + 1, i + Len(sub)) = sub

SummaryWord == <<"s", "u", "m", "m", "a", "r", "y">>
ObjectiveWord == <<"o", "b", "j", "e", "c", "t", "i", "v", "e">>

\* Action texts of improvement-plan entries.
ActAddTools == <<"A", "d", "d", " ", "t", "o", "o", "l", "s">>
ActFixSummary == <<"F", "i", "x", " ", "S", "u", "m", "m", "a", "r", "y">>
ActUseBullets == <<"U", "s", "e", " ", "b", "u", "l", "l", "e", "t", "s">>
ActObjective == <<"O", "B", "J", "E", "C", "T", "I", "V", "E">>
ActSummarize == <<"S", "u", "m", "m", "a", "r", "i", "z", "e">>

Plan(p, c, a) ==
    [priority |-> p, category |-> c, action |-> a,
     explanation |-> "why", expectedBenefit |-> "gain"]

\* The improvement-plan entries results are built from.  The last one has a
\* category outside the schema's enum: the parsed payload is cast, not
\* validated, so such an entry reaches the dashboard.
PlanEntries ==
    { Plan("High", "Keywords", ActAddTools),
      Plan("High", "Keywords", ActFixSummary),
      Plan("Medium", "Content", ActUseBullets),
      Plan("Low", "Content", ActObjective),
      Plan("Medium", "Formatting", ActFixSummary),
      Plan("Low", "Formatting", ActSummarize),
      Plan("Low", "Other", ActUseBullets) }

KeywordPool == <<"Kubernetes", "Terraform", "Docker">>
IssuePool == {"Tables used", "Font too small"}

\* The results a dashboard may be mounted with.
DashboardData ==
    { [DataBob EXCEPT !.missingKeywords = SubSeq(KeywordPool, 1, k),
                      !.formattingIssues = f,
                      !.improvementPlan = p] :
        k \in 0 .. MaxKeywords,
        f \in SeqsUpTo(IssuePool, MaxIssues),
        p \in SeqsUpTo(PlanEntries, MaxPlan) }

Tabs == {"All", "Content", "Keywords", "Formatting"}

\* PlanSection with the action text searched as written, not lower-cased.
PlanSectionCaseSensitive(plan) ==
    IF plan.category = "Keywords" THEN "skills"
    ELSE IF \/ Includes(plan.action, SummaryWord)
            \/ Includes(plan.action, ObjectiveWord)
    THEN "summary"
    ELSE IF plan.category = "Content" THEN "experience"
    ELSE "document"

\* The section a plan entry is attached to.
PlanSection(plan) ==
    LET lowerAction == ToLowerCase(plan.action)
    IN  IF plan.category = "Keywords" THEN "skills"
        ELSE IF \/ Includes(lowerAction, SummaryWord)
                \/ Includes(lowerAction, ObjectiveWord)
        THEN "summary"
        ELSE IF plan.category = "Content" THEN "experience"
        ELSE "document"

\* FeedbackItems with one missing-keywords item for each missing keyword.
FeedbackItemsMissingPerKeyword(data) ==
    LET missing ==
            [ i \in 1 .. Len(data.missingKeywords) |->
                [ type |-> "missing_keywords", priority |-> "High",
                  category |-> "Keywords",
                  title |-> "Missing Critical Keywords",
                  description |-> "Your resume is missing a top keyword.",
                  keywords |-> << data.missingKeywords[i] >>,
                  section |-> "skills" ] ]
        formatting ==
            [ i \in 1 .. Len(data.formattingIssues) |->
                [ type |-> "formatting", priority |-> "Medium",
                  category |-> "Formatting", title |-> "Formatting Issue",
                  description |-> data.formattingIssues[i],
                  section |-> "document" ] ]
        plan ==
            [ i \in 1 .. Len(data.improvementPlan) |->
                LET entry == data.improvementPlan[i]
                IN  [ type |-> "plan", priority |-> entry.priority,
                      category |-> entry.category, title |-> entry.action,
                      description |-> entry.explanation,
                      benefit |-> entry.expectedBenefit,
                      section |-> PlanSection(entry) ] ]
    IN  missing \o formatting \o plan

\* FeedbackItems with the plan items pushed before the formatting items.
FeedbackItemsPlanFirst(data) ==
    LET missing ==
            IF Len(data.missingKeywords) > 0
            THEN << [ type |-> "missing_keywords", priority |-> "High",
                      category |-> "Keywords",
                      title |-> "Missing Critical Keywords",
                      description |->
                          "Your resume is missing "
                          \o ToString(Len(data.missingKeywords))
                          \o " top keywords found in typical job descriptions for this role. Adding these can boost your score significantly.",
                      keywords |-> data.missingKeywords,
                      section |-> "skills" ] >>
            ELSE << >>
        formatting ==
            [ i \in 1 .. Len(data.formattingIssues) |->
                [ type |-> "formatting", priority |-> "Medium",
                  category |-> "Formatting", title |-> "Formatting Issue",
                  description |-> data.formattingIssues[i],
                  section |-> "document" ] ]
        plan ==
            [ i \in 1 .. Len(data.improvementPlan) |->
                LET entry == data.improvementPlan[i]
                IN  [ type |-> "plan", priority |-> entry.priority,
                      category |-> entry.category, title |-> entry.action,
                      description |-> entry.explanation,
                      benefit |-> entry.expectedBenefit,
                      section |-> PlanSection(entry) ] ]
    IN  missing \o plan \o formatting

\* getFilteredFeedback up to its return: the list `items`.
FeedbackItems(data) ==
    LET missing ==
            IF Len(data.missingKeywords) > 0
            THEN << [ type |-> "missing_keywords", priority |-> "High",
                      category |-> "Keywords",
                      title |-> "Missing Critical Keywords",
                      description |->
                          "Your resume is missing "
                          \o ToString(Len(data.missingKeywords))
                          \o " top keywords found in typical job descriptions for this role. Adding these can boost your score significantly.",
                      keywords |-> data.missingKeywords,
                      section |-> "skills" ] >>
            ELSE << >>
        formatting ==
            [ i \in 1 .. Len(data.formattingIssues) |->
                [ type |-> "formatting", priority |-> "Medium",
                  category |-> "Formatting", title |-> "Formatting Issue",
                  description |-> data.formattingIssues[i],
                  section |-> "document" ] ]
        plan ==
            [ i \in 1 .. Len(data.improvementPlan) |->
                LET entry == data.improvementPlan[i]
                IN  [ type |-> "plan", priority |-> entry.priority,
                      category |-> entry.category, title |-> entry.action,
                      description |-> entry.explanation,
                      benefit |-> entry.expectedBenefit,
                      section |-> PlanSection(entry) ] ]
    IN  missing \o formatting \o plan

\* GetFilteredFeedback whose filter looks at plan items only.
GetFilteredFeedbackPlanOnly(data, tab) ==
    IF tab = "All" THEN FeedbackItems(data)
    ELSE SelectSeq(FeedbackItems(data),
                   LAMBDA item : item.type = "plan" /\ item.category = tab)

\* getFilteredFeedback for the active tab.
GetFilteredFeedback(data, tab) ==
    IF tab = "All" THEN FeedbackItems(data)
    ELSE SelectSeq(FeedbackItems(data), LAMBDA item : item.category = tab)

CountWhere(plan, cat) == Len(SelectSeq(plan, LAMBDA i : i.category = cat))

CountContent(data) == CountWhere(data.improvementPlan, "Content")

\* CountKeywords without the one for the missing-keywords item.
CountKeywordsPlanOnly(data) == CountWhere(data.improvementPlan, "Keywords")

CountKeywords(data) ==
    (IF Len(data.missingKeywords) > 0 THEN 1 ELSE 0)
    + CountWhere(data.improvementPlan, "Keywords")

\* CountFormatting without the formatting issues.
CountFormattingPlanOnly(data) == CountWhere(data.improvementPlan, "Formatting")

CountFormatting(data) ==
    Len(data.formattingIssues)
    + CountWhere(data.improvementPlan, "Formatting")

\* The number on a tab's badge.
TabBadge(data, tab) ==
    CASE tab = "All" ->
            CountContent(data) + CountKeywords(data) + CountFormatting(data)
      [] tab = "Content" -> CountContent(data)
      [] tab = "Keywords" -> CountKeywords(data)
      [] OTHER -> CountFormatting(data)

\* The list the dashboard renders: `data` is App's result.
feedbackItems == GetFilteredFeedback(result.fields, activeTab)

\* A dashboard just mounted with one of the results above: the attempt that
\* produced it is over and status is success.
DashInit ==
    /\ status = "success"
    /\ \E data \in DashboardData : result = Obj(data)
    /\ errorMsg = Null
    /\ env = [VITE_API_KEY |-> Str("secret"), VITE_GEMINI_API_KEY |-> Undefined]
    /\ calls = [c \in Attempts |->
                    IF c = 1 THEN Finished
                    ELSE [phase |-> "none", stale |-> FALSE]]
    /\ requests = [c \in Attempts |-> IF c = 1 THEN 1 ELSE 0]
    /\ lastEvent = [kind |-> "mount"]
    /\ activeTab = "All"
    /\ isExporting = FALSE
    /\ exports = NoExports
    /\ progress = 0

\* A click on one of the four tab buttons.
SetActiveTab(tab) ==
    /\ DashboardShown
    /\ activeTab' = tab
    /\ lastEvent' = [kind |-> "tab", tab |-> tab]
    /\ UNCHANGED <<status, result, errorMsg, env, calls, requests,
                   isExporting, exports, progress>>

DashNext == \E tab \in Tabs : SetActiveTab(tab)

DashSpec == DashInit /\ [][DashNext]_vars


\* ------------------------------------------------- events of the last step

\* The last step was the settlement of an analysis call: either analyze threw
\* before its request (onload) or generateContent settled (settle).
CallSettled(ev) ==
    \/ ev.kind = "settle"
    \/ ev.kind = "onload" /\ ev.outcome.kind = "throw"

\* The last step was a failure on the analysis path.
FailureEvent(ev) ==
    \/ ev.kind = "onerror"
    \/ CallSettled(ev) /\ ev.outcome.kind = "throw"

\* The reply is JSON text denoting an object that lacks a required field.
LacksRequiredField(reply) ==
    /\ reply.kind = "resolved"
    /\ ~Falsy(reply.text)
    /\ LET p == JSONParse(reply.text.v)
       IN  /\ p.kind = "return"
           /\ p.value.t = "object"
           /\ ~SatisfiesSchema(p.value)

NonEmptyString(v) == v.t = "string" /\ v.v # ""

\* ------------------------------------------------------------------ claims

\* C1: the settlement of an analysis call changes status, result or errorMsg
\* only if no cancel or reset happened since the file selection that started
\* the call.
C1_StaleSettlementDiscarded ==
    [][ (CallSettled(lastEvent') /\ lastEvent'.stale)
            => UNCHANGED <<status, result, errorMsg>> ]_vars

\* C2: a call that resolves with a result while status is not analyzing
\* leaves status, result and errorMsg unchanged.
C2_LateResultDiscarded ==
    [][ ( /\ lastEvent'.kind = "settle"
          /\ lastEvent'.outcome.kind = "return"
          /\ status # "analyzing" )
            => UNCHANGED <<status, result, errorMsg>> ]_vars

\* A result arrived after a cancel, with no file selected since, and was
\* dropped: status is still idle and result still null.
C2_Witness ==
    /\ lastEvent.kind = "settle"
    /\ lastEvent.outcome.kind = "return"
    /\ lastEvent.stale
    /\ status = "idle"
    /\ result = Null

\* C3: selecting a file while idle sets status to analyzing, and every entry
\* into success or error happens from analyzing.
C3_TerminalOnlyFromAnalyzing ==
    [][ /\ (lastEvent'.kind = "select" /\ status = "idle")
                => status' = "analyzing"
        /\ (status' \in {"success", "error"} /\ status' # status)
                => status = "analyzing" ]_vars

\* C4: whenever status is success, result is non-null and errorMsg is null,
\* and the dashboard and the error panel are never shown together.
C4_AllOrNothing ==
    /\ status = "success" => (result # Null /\ errorMsg = Null)
    /\ ~(DashboardShown /\ ErrorPanelShown)

\* C5: whenever status is idle, analyzing or error, result is null.
C5_ResultOnlyInSuccess ==
    status \in {"idle", "analyzing", "error"} => result = Null

\* C6: every failure on the analysis path that occurs while status is
\* analyzing ends with status error and a non-empty errorMsg.
C6_FailuresEndInError ==
    [][ (FailureEvent(lastEvent') /\ status = "analyzing")
            => (status' = "error" /\ NonEmptyString(errorMsg')) ]_vars

\* generateContent rejected with an Error whose message is empty while the
\* attempt was live, and the error panel shows the fallback text.
C6_Witness ==
    /\ lastEvent.kind = "settle"
    /\ lastEvent.reply = [kind |-> "rejected", error |-> Err("Error", "")]
    /\ ~lastEvent.stale
    /\ status = "error"
    /\ errorMsg = Str(FallbackMsg)

\* C7: a response that is well-formed JSON but lacks a required field makes
\* the analysis call fail, and status never is success with such a result.
C7_IncompletePayloadRejected ==
    /\ (lastEvent.kind = "settle" /\ LacksRequiredField(lastEvent.reply))
            => lastEvent.outcome.kind = "throw"
    /\ (status = "success" /\ result.t = "object")
            => SatisfiesSchema(result)

\* C8: with the key supplied in VITE_GEMINI_API_KEY, no analysis call fails
\* with the 'API Key is missing' error.
C8_ReadmeKeyFound ==
    ~Falsy(env["VITE_GEMINI_API_KEY"])
        => ~( /\ lastEvent.kind = "onload"
              /\ lastEvent.outcome.kind = "throw"
              /\ lastEvent.outcome.error.message = MissingKeyMsg )

C10_EmptyResponseRejected ==
    [][ ( /\ lastEvent'.kind = "settle"
          /\ lastEvent'.reply.kind = "resolved"
          /\ lastEvent'.reply.text \in {Undefined, Str("")} )
            => /\ lastEvent'.outcome =
                    [kind |-> "throw", error |-> Err("Error", NoResponseMsg),
                     parsed |-> FALSE]
               /\ result' = result
               /\ status' # "success" \/ status = "success" ]_vars

\* The service answered a live attempt with an empty text: the error panel
\* shows the empty-response error and no result is held.
C10_Witness ==
    /\ lastEvent.kind = "settle"
    /\ lastEvent.reply = [kind |-> "resolved", text |-> Str("")]
    /\ ~lastEvent.stale
    /\ status = "error"
    /\ errorMsg = Str(NoResponseMsg)
    /\ result = Null


\* The last step was a file chosen or dropped on the upload area.
UploadEvent(ev) == ev.kind \in {"select", "rejectUpload"}

\* What the error updater is to show for a thrown value.
ShownMessage(err) ==
    IF err.t = "Error" /\ err.message # "" THEN Str(err.message)
    ELSE Str("Failed to analyze resume. Please try again.")

\* C11: an analysis call that rejects while status is not analyzing leaves
\* status, result and errorMsg unchanged.
C11_LateRejectionDiscarded ==
    [][ ( /\ CallSettled(lastEvent')
          /\ lastEvent'.outcome.kind = "throw"
          /\ status # "analyzing" )
            => UNCHANGED <<status, result, errorMsg>> ]_vars

\* A request rejected after a cancel, with no file selected since: status is
\* still idle and no message is set.
C11_Witness ==
    /\ lastEvent.kind = "settle"
    /\ lastEvent.reply.kind = "rejected"
    /\ lastEvent.stale
    /\ status = "idle"
    /\ errorMsg = Null

\* C12: when a rejected call moves status from analyzing to error, errorMsg
\* is the thrown Error's non-empty message and otherwise the fallback text;
\* errorMsg is never empty or null while status is error.
C12_ErrorMessageShown ==
    [][ /\ ( /\ CallSettled(lastEvent')
             /\ lastEvent'.outcome.kind = "throw"
             /\ status = "analyzing" )
            => ( /\ status' = "error"
                 /\ errorMsg' = ShownMessage(lastEvent'.outcome.error) )
        /\ status' = "error" => NonEmptyString(errorMsg') ]_vars

\* generateContent rejected a live attempt with a value that is no Error, and
\* the error panel shows the fallback text.
C12_Witness ==
    /\ lastEvent.kind = "settle"
    /\ lastEvent.reply = [kind |-> "rejected", error |-> Str("aborted")]
    /\ ~lastEvent.stale
    /\ status = "error"
    /\ errorMsg = Str(FallbackMsg)

\* C13: when generateContent rejects, analyze rejects with the very value
\* generateContent raised.
C13_TransportErrorUnchanged ==
    (lastEvent.kind = "settle" /\ lastEvent.reply.kind = "rejected")
        => ( /\ lastEvent.outcome.kind = "throw"
             /\ lastEvent.outcome.error = lastEvent.reply.error )

\* generateContent rejected a live attempt with 'Failed to fetch', and that
\* message is the one on the error panel.
C13_Witness ==
    /\ lastEvent.kind = "settle"
    /\ lastEvent.reply =
            [kind |-> "rejected", error |-> Err("Error", "Failed to fetch")]
    /\ ~lastEvent.stale
    /\ status = "error"
    /\ errorMsg = Str("Failed to fetch")

\* C14: each attempt issues at most one request to the external model, and an
\* attempt that was never started or never read issues none.
C14_AtMostOneRequest ==
    \A c \in Attempts :
        /\ requests[c] <= 1
        /\ calls[c].phase \in {"none", "reading"} => requests[c] = 0
        /\ calls[c].phase = "requesting" => requests[c] = 1

\* A request failed and its attempt is over with exactly one request issued.
C14_Witness ==
    /\ lastEvent.kind = "settle"
    /\ lastEvent.outcome.kind = "throw"
    /\ calls[lastEvent.call].phase = "done"
    /\ requests[lastEvent.call] = 1

\* C15: a file is chosen or dropped only while status is idle.
C15_SelectOnlyWhenIdle ==
    [][ UploadEvent(lastEvent') => status = "idle" ]_vars

\* A second attempt was started, after the first one was left for idle.
C15_Witness ==
    /\ lastEvent.kind = "select"
    /\ lastEvent.call = 2
    /\ status = "analyzing"

\* C16: a file whose MIME type is not application/pdf is rejected: no
\* attempt starts, no request is issued and status stays idle.
C16_NonPdfRejected ==
    [][ (UploadEvent(lastEvent') /\ lastEvent'.file.type # "application/pdf")
            => ( /\ lastEvent'.kind = "rejectUpload"
                 /\ status' = "idle"
                 /\ UNCHANGED <<status, result, errorMsg, calls, requests>> )
      ]_vars

\* A PNG was dropped: status is idle and no attempt is in flight.
C16_Witness ==
    /\ lastEvent.kind = "rejectUpload"
    /\ lastEvent.file.type = "image/png"
    /\ status = "idle"
    /\ \A c \in Attempts : calls[c].phase = "none"

\* C17: a PDF larger than 5 MB is rejected at upload: no attempt starts.
C17_OversizePdfRejected ==
    [][ ( /\ UploadEvent(lastEvent')
          /\ lastEvent'.file.type = "application/pdf"
          /\ lastEvent'.file.sizeMB > MaxSizeMB )
            => ( /\ lastEvent'.kind = "rejectUpload"
                 /\ UNCHANGED <<status, result, errorMsg, calls, requests>> )
      ]_vars

\* C18: after cancel, retry or reset the state is exactly status idle, result
\* null, errorMsg null, which is also what the handler would write again.
C18_ClearedAfterCancelOrReset ==
    lastEvent.kind \in {"cancel", "reset"}
        => ( /\ status = "idle"
             /\ result = Null
             /\ errorMsg = Null
             /\ app = Cleared )

\* The dashboard's reset was pressed while a result was held.
C18_Witness ==
    /\ lastEvent.kind = "reset"
    /\ lastEvent.from = "success"
    /\ status = "idle"
    /\ result = Null


\* Every improvement-plan entry has a category of the schema's enum.
PlanCategoriesInEnum(data) ==
    \A i \in DOMAIN data.improvementPlan :
        data.improvementPlan[i].category \in {"Content", "Keywords", "Formatting"}

\* C19: for a result whose plan categories all lie in {Content, Keywords,
\* Formatting}, the number of feedback items under tab All equals the sum of
\* the Content, Keywords and Formatting tab counts.
C19_AllCountIsSumOfTabs ==
    (DashboardShown /\ PlanCategoriesInEnum(result.fields))
        => Len(GetFilteredFeedback(result.fields, "All"))
             = CountContent(result.fields) + CountKeywords(result.fields)
               + CountFormatting(result.fields)

\* Tab All was clicked on a result with missing keywords, two formatting issues
\* and two plan entries of the enum: five items, and five on the badge.
C19_Witness ==
    /\ DashboardShown
    /\ lastEvent = [kind |-> "tab", tab |-> "All"]
    /\ activeTab = "All"
    /\ PlanCategoriesInEnum(result.fields)
    /\ Len(result.fields.missingKeywords) > 0
    /\ Len(result.fields.formattingIssues) = 2
    /\ Len(result.fields.improvementPlan) = 2
    /\ Len(feedbackItems) = 5
    /\ TabBadge(result.fields, "All") = 5

\* C20: under tab Content, Keywords or Formatting the rendered list is
\* exactly the items of the unfiltered list with that category, in their
\* original order; under tab All it is the unfiltered list.
C20_FilterByCategory ==
    DashboardShown =>
        LET U == FeedbackItems(result.fields)
            F == feedbackItems
            P == {i \in 1 .. Len(U) : U[i].category = activeTab}
        IN  IF activeTab = "All"
            THEN F = U
            ELSE /\ Len(F) = Cardinality(P)
                 /\ \A k \in 1 .. Len(F) :
                        F[k] = U[CHOOSE i \in P :
                                    Cardinality({j \in P : j < i}) = k - 1]

\* Tab Formatting is active and shows a formatting issue followed by a plan
\* entry, fewer items than the unfiltered list holds.
C20_Witness ==
    /\ DashboardShown
    /\ activeTab = "Formatting"
    /\ Len(feedbackItems) = 2
    /\ feedbackItems[1].type = "formatting"
    /\ feedbackItems[2].type = "plan"
    /\ Len(FeedbackItems(result.fields)) > 2


\* The positions of the missing-keywords items in a feedback list.
MissingKeywordItems(items) ==
    {i \in DOMAIN items : items[i].type = "missing_keywords"}

\* C21: the feedback list holds exactly one 'Missing Critical Keywords' item,
\* of priority High and category Keywords and carrying the whole
\* missingKeywords list, when missingKeywords is non-empty, and no such item
\* when it is empty, whatever the other fields are.
C21_OneMissingKeywordsItem ==
    DashboardShown =>
        LET data == result.fields
            U == FeedbackItems(data)
            M == MissingKeywordItems(U)
        IN  IF Len(data.missingKeywords) = 0
            THEN M = {}
            ELSE /\ Cardinality(M) = 1
                 /\ \A i \in M :
                        /\ U[i].title = "Missing Critical Keywords"
                        /\ U[i].priority = "High"
                        /\ U[i].category = "Keywords"
                        /\ U[i].keywords = data.missingKeywords

\* Tab Keywords was clicked on a result with two missing keywords and no plan
\* entry: the one item shown carries both keywords.
C21_Witness ==
    /\ DashboardShown
    /\ lastEvent = [kind |-> "tab", tab |-> "Keywords"]
    /\ Len(result.fields.missingKeywords) = 2
    /\ Len(result.fields.improvementPlan) = 0
    /\ Len(feedbackItems) = 1
    /\ feedbackItems[1].keywords = <<"Kubernetes", "Terraform">>

\* C22: the unfiltered feedback list is the missing-keywords item (if any),
\* then one Medium/Formatting item per formattingIssues entry in input order,
\* then one item per improvementPlan entry in input order with that entry's
\* priority and category; its length is (1 if missingKeywords is non-empty,
\* else 0) + |formattingIssues| + |improvementPlan|.
C22_UnfilteredOrderAndLength ==
    DashboardShown =>
        LET data == result.fields
            U == FeedbackItems(data)
            m == IF Len(data.missingKeywords) > 0 THEN 1 ELSE 0
            nf == Len(data.formattingIssues)
            np == Len(data.improvementPlan)
        IN  /\ Len(U) = m + nf + np
            /\ m = 1 => U[1].type = "missing_keywords"
            /\ \A i \in 1 .. nf :
                    /\ U[m + i].type = "formatting"
                    /\ U[m + i].priority = "Medium"
                    /\ U[m + i].category = "Formatting"
                    /\ U[m + i].description = data.formattingIssues[i]
            /\ \A j \in 1 .. np :
                    /\ U[m + nf + j].type = "plan"
                    /\ U[m + nf + j].title = data.improvementPlan[j].action
                    /\ U[m + nf + j].priority = data.improvementPlan[j].priority
                    /\ U[m + nf + j].category = data.improvementPlan[j].category

\* Tab All was clicked on a result with missing keywords, two different
\* formatting issues and two different plan entries: five items, of the three
\* kinds in that order.
C22_Witness ==
    /\ DashboardShown
    /\ lastEvent = [kind |-> "tab", tab |-> "All"]
    /\ Len(feedbackItems) = 5
    /\ feedbackItems[1].type = "missing_keywords"
    /\ feedbackItems[2].type = "formatting"
    /\ feedbackItems[3].type = "formatting"
    /\ feedbackItems[2].description # feedbackItems[3].description
    /\ feedbackItems[4].type = "plan"
    /\ feedbackItems[5].type = "plan"
    /\ feedbackItems[4].priority # feedbackItems[5].priority

\* The action text holds the word at some position, letter case apart.
Mentions(action, word) ==
    \E i \in 1 .. (Len(action) - Len(word) + 1) :
        \A k \in 1 .. Len(word) : LowerChar(action[i + k - 1]) = word[k]

MentionsSummary(action) ==
    Mentions(action, SummaryWord) \/ Mentions(action, ObjectiveWord)

\* C23: the section of a plan entry's item is chosen by first match: category
\* Keywords gives skills; otherwise an action text containing 'summary' or
\* 'objective', letter case apart, gives summary; otherwise category Content
\* gives experience; everything else gives document.  So a Keywords entry
\* that mentions 'summary' is skills and a Formatting entry that mentions it
\* is summary.
C23_SectionByFirstMatch ==
    DashboardShown =>
        LET data == result.fields
            U == FeedbackItems(data)
            off == Len(U) - Len(data.improvementPlan)
        IN  /\ off >= 0
            /\ \A j \in DOMAIN data.improvementPlan :
                LET entry == data.improvementPlan[j]
                    section == U[off + j].section
                    says == MentionsSummary(entry.action)
                IN  /\ U[off + j].title = entry.action
                    /\ section = "skills" <=> entry.category = "Keywords"
                    /\ section = "summary"
                            <=> (entry.category # "Keywords" /\ says)
                    /\ section = "experience"
                            <=> (entry.category = "Content" /\ ~says)
                    /\ section = "document"
                            <=> (entry.category \notin {"Keywords", "Content"}
                                    /\ ~says)

\* Tab All was clicked on a plan of two entries whose action is "Fix Summary":
\* the Keywords one is attached to skills, the Formatting one to summary.
C23_Witness ==
    /\ DashboardShown
    /\ lastEvent = [kind |-> "tab", tab |-> "All"]
    /\ Len(result.fields.missingKeywords) = 0
    /\ Len(result.fields.formattingIssues) = 0
    /\ Len(feedbackItems) = 2
    /\ feedbackItems[1].title = ActFixSummary
    /\ feedbackItems[1].category = "Keywords"
    /\ feedbackItems[1].section = "skills"
    /\ feedbackItems[2].title = ActFixSummary
    /\ feedbackItems[2].category = "Formatting"
    /\ feedbackItems[2].section = "summary"

\* The 'No issues found in this category' placeholder is rendered.
PlaceholderShown == DashboardShown /\ Len(feedbackItems) = 0

\* C24: for each tab X of Content, Keywords and Formatting the badge count of
\* X equals the number of items displayed when X is active, so that with one
\* of these tabs active the placeholder is shown exactly when its badge count
\* is 0.  (Tab All's badge is the sum of the three; with every plan category
\* in the enum the same holds for it.)  Every result is shown under every
\* tab, so each state is examined for its active tab.
C24_BadgeIsDisplayedCount ==
    DashboardShown =>
        LET data == result.fields
            displayed == Len(feedbackItems)
        IN  /\ activeTab \in {"Content", "Keywords", "Formatting"}
                    => TabBadge(data, activeTab) = displayed
            /\ (activeTab # "All" \/ PlanCategoriesInEnum(data))
                    => (PlaceholderShown <=> TabBadge(data, activeTab) = 0)

\* Tab Content was clicked on a result that has feedback but none of category
\* Content: the badge reads 0 and the placeholder is shown.
C24_Witness ==
    /\ lastEvent = [kind |-> "tab", tab |-> "Content"]
    /\ activeTab = "Content"
    /\ Len(FeedbackItems(result.fields)) > 0
    /\ TabBadge(result.fields, "Content") = 0
    /\ PlaceholderShown


\* Response texts that satisfy the result schema, each with the value it
\* denotes.
ConformingPayloads == { <<TextAda, DataAda>>, <<TextBob, DataBob>> }

\* C25: a response payload that satisfies the result schema deserializes into
\* a result equal to the payload, with every required field in it, and the
\* attempt ends in success holding exactly that result when status is still
\* analyzing.
C25_ConformingPayloadAccepted ==
    [][ \A pair \in ConformingPayloads :
            ( /\ lastEvent'.kind = "settle"
              /\ lastEvent'.reply = [kind |-> "resolved", text |-> Str(pair[1])] )
                => /\ lastEvent'.outcome.kind = "return"
                   /\ lastEvent'.outcome.data = Obj(pair[2])
                   /\ Required \subseteq DOMAIN lastEvent'.outcome.data.fields
                   /\ status = "analyzing"
                        => /\ status' = "success"
                           /\ result' = Obj(pair[2])
                           /\ DashboardShown' ]_vars

\* The service answered the second attempt, made after a reset, with Ada's
\* payload while it was analyzing: the dashboard shows exactly that result.
C25_Witness ==
    /\ lastEvent.kind = "settle"
    /\ lastEvent.call = 2
    /\ lastEvent.reply = [kind |-> "resolved", text |-> Str(TextAda)]
    /\ ~lastEvent.stale
    /\ status = "success"
    /\ result = Obj(DataAda)
    /\ result.fields.improvementPlan[1].category = "Keywords"


\* The result held has an improvementPlan list.
HoldsPlan == result.t = "object" /\ "improvementPlan" \in DOMAIN result.fields

\* The category tabs under which a plan entry's feedback item is listed.
TabsListing(entry) ==
    {tab \in {"Content", "Keywords", "Formatting"} : entry.category = tab}

\* C27: every improvementPlan entry of a result held in the success state has
\* its priority in {High, Medium, Low} and its category in {Content,
\* Keywords, Formatting}, so that its feedback item is listed under exactly
\* one of the three category tabs.
C27_PlanEntriesInEnums ==
    (status = "success" /\ HoldsPlan) =>
        \A i \in DOMAIN result.fields.improvementPlan :
            LET entry == result.fields.improvementPlan[i]
            IN  /\ entry.priority \in {"High", "Medium", "Low"}
                /\ entry.category \in {"Content", "Keywords", "Formatting"}
                /\ Cardinality(TabsListing(entry)) = 1


\* ---------------------------------------------------------------- fairness

\* The file read eventually completes or fails, and the external call
\* eventually resolves or rejects: a FileReader that was started fires onload
\* or onerror, and the promise of generateContent settles.  Nothing is assumed
\* of the user: no file need be selected, no button clicked.
FairSpec ==
    /\ Spec
    /\ \A c \in Attempts :
        /\ WF_vars(ReaderOnLoad(c) \/ ReaderOnError(c))
        /\ WF_vars(\E reply \in Replies : RequestSettles(c, reply))

\* C26: given that reads and calls settle, every attempt that enters
\* analyzing eventually leaves it (status becomes success, error, or idle by
\* cancel), and status is never analyzing right after a call has settled.
C26_AnalyzingEventuallyLeft ==
    /\ (status = "analyzing") ~> (status \in {"success", "error", "idle"})
    /\ [](CallSettled(lastEvent) => status # "analyzing")

\* The third attempt, made after two earlier ones, was analyzing when its
\* call resolved with Bob's payload, and status left analyzing for success.
C26_Witness ==
    /\ lastEvent.kind = "settle"
    /\ lastEvent.call = 3
    /\ ~lastEvent.stale
    /\ lastEvent.reply = [kind |-> "resolved", text |-> Str(TextBob)]
    /\ status = "success"
    /\ \A c \in Attempts : ~InFlight(c)


\* ------------------------------------------------------------- PDF export

\* Bound on the handleExportPDF calls awaiting html2canvas at one time.
MaxExports == 2

\* document.getElementById('analysis-dashboard-content'): the root element of
\* the dashboard, in the document exactly while the dashboard is rendered.
GetDashboardElement ==
    IF DashboardShown THEN Obj([id |-> "analysis-dashboard-content"]) ELSE Null

\* A click on the Export PDF button, which is disabled while isExporting:
\* handleExportPDF up to its await.  Without the element the flag is cleared
\* and the handler returns; with it html2canvas is started.
HandleExportPDF ==
    /\ DashboardShown
    /\ ~isExporting
    /\ exports.own + exports.orphaned < MaxExports
    /\ LET element == GetDashboardElement
       IN  IF Falsy(element)
           THEN /\ isExporting' = FALSE
                /\ lastEvent' = [kind |-> "export", outcome |-> "noElement"]
                /\ UNCHANGED exports
           ELSE /\ isExporting' = TRUE
                /\ exports' = [exports EXCEPT !.own = @ + 1]
                /\ lastEvent' = [kind |-> "export", outcome |-> "await"]
    /\ UNCHANGED <<status, result, errorMsg, env, calls, requests, activeTab,
                   progress>>

ExportOwners == {"own", "orphaned"}
ExportOutcomes == {"saved", "failed"}

\* html2canvas settles for one handleExportPDF call and the rest of the
\* handler runs: the PDF is saved, or something threw and the catch block
\* alerts; either way the finally block calls setIsExporting(false), which
\* changes nothing when the dashboard that made the call is unmounted.
Html2CanvasSettles(owner, outcome) ==
    /\ exports[owner] > 0
    /\ exports' = [exports EXCEPT ![owner] = @ - 1]
    /\ isExporting' = IF owner = "own" THEN FALSE ELSE isExporting
    /\ lastEvent' = [kind |-> "exportEnd", owner |-> owner,
                     outcome |-> outcome]
    /\ UNCHANGED <<status, result, errorMsg, env, calls, requests, activeTab,
                   progress>>

\* The application with the export button of its dashboard.
ExportNext ==
    \/ Next
    \/ HandleExportPDF
    \/ \E owner \in ExportOwners, outcome \in ExportOutcomes :
            Html2CanvasSettles(owner, outcome)

ExportSpec == Init /\ [][ExportNext]_vars

\* The handleExportPDF calls in progress.
ExportsInProgress == exports.own + exports.orphaned

\* C28: every PDF export ends with isExporting = false on each of its exit
\* paths, the export action is not available while isExporting is true, and
\* at most one export is in progress at any time.
C28_OneExportAtATime ==
    [][ /\ ( \/ lastEvent' = [kind |-> "export", outcome |-> "noElement"]
             \/ lastEvent'.kind = "exportEnd" /\ lastEvent'.owner = "own" )
                => ~isExporting'
        /\ lastEvent'.kind = "export" => ~isExporting
        /\ ExportsInProgress' <= 1 ]_vars


\* ---------------------------------------------------------- loading screen

\* progress is a fraction; it is counted here in steps of 1/Resolution of a
\* percent.
Resolution == 2

\* The percentage at which the simulated progress stalls.
ProgressCap == 95

Cap == ProgressCap * Resolution

\* Math.random() * 1.5: a value of [0, 1.5).
Increments == {k \in 0 .. 2 * Resolution : 2 * k < 3 * Resolution}

\* Math.min
Min(a, b) == IF a <= b THEN a ELSE b

\* Tick with an increment centred on zero (Math.random() - 0.5, scaled).
TickCentred(inc) ==
    /\ LoadingShown
    /\ progress' =
            IF progress >= Cap THEN progress
            ELSE Min(progress + inc - Resolution \div 2, Cap)
    /\ lastEvent' = [kind |-> "tick"]
    /\ UNCHANGED <<status, result, errorMsg, env, calls, requests, activeTab,
                   isExporting, exports>>

\* One firing of the 100 ms interval timer, which runs while the loading
\* screen is mounted: the functional update of progress.
Tick(inc) ==
    /\ LoadingShown
    /\ progress' =
            IF progress >= Cap THEN progress
            ELSE Min(progress + inc, Cap)
    /\ lastEvent' = [kind |-> "tick"]
    /\ UNCHANGED <<status, result, errorMsg, env, calls, requests, activeTab,
                   isExporting, exports>>

\* The width of a step of the Steps Grid, in percent.
StepWidth == 25

getStepStatus(stepIndex) ==
    LET threshold == stepIndex * StepWidth * Resolution
    IN  IF progress > threshold + StepWidth * Resolution THEN "completed"
        ELSE IF progress > threshold THEN "active"
        ELSE "pending"

StepIndexes == 0 .. 3

\* StepStatusShown without the special case of step 0.
StepStatusShownByProgress(index) == getStepStatus(index)

\* The status a step of the Steps Grid is rendered with.
StepStatusShown(index) ==
    IF index = 0 THEN "completed" ELSE getStepStatus(index)

\* The application with the timer of its loading screen.
LoadingNext ==
    \/ Next
    \/ \E inc \in Increments : Tick(inc)

LoadingSpec == Init /\ [][LoadingNext]_vars


\* C29: while the loading screen is shown the simulated progress starts at 0,
\* never decreases and never exceeds 95, and once it is 95 it stays 95 at
\* every later tick.
C29_ProgressMonotoneAndCapped ==
    [][ /\ LoadingShown' => (0 <= progress' /\ progress' <= Cap)
        /\ (LoadingShown' /\ ~LoadingShown) => progress' = 0
        /\ (LoadingShown' /\ LoadingShown) => progress' >= progress
        /\ (LoadingShown' /\ LoadingShown /\ progress = Cap)
                => progress' = Cap ]_vars

\* The loading screen of the second attempt, whose request is outstanding,
\* has ticked its way from 0 to 95.
C29_Witness ==
    /\ LoadingShown
    /\ lastEvent.kind = "tick"
    /\ calls[2].phase = "requesting"
    /\ progress = Cap

\* The order of the step statuses.
StepRank(s) ==
    CASE s = "pending" -> 0
      [] s = "active" -> 1
      [] s = "completed" -> 2

\* C30: on the loading screen step 0 is always shown completed, and the
\* status of each other step only moves forward (pending, active, completed)
\* and never backward.
C30_StepsOnlyMoveForward ==
    [][ /\ LoadingShown' => StepStatusShown(0)' = "completed"
        /\ (LoadingShown' /\ LoadingShown) =>
                \A index \in StepIndexes \ {0} :
                    StepRank(StepStatusShown(index)')
                        >= StepRank(StepStatusShown(index)) ]_vars

\* After a tick the grid shows steps 0 and 1 completed, step 2 active and
\* step 3 pending.
C30_Witness ==
    /\ LoadingShown
    /\ lastEvent.kind = "tick"
    /\ StepStatusShown(0) = "completed"
    /\ StepStatusShown(1) = "completed"
    /\ StepStatusShown(2) = "active"
    /\ StepStatusShown(3) = "pending"

=============================================================================
